---- MODULE Spec2Model ----
(***************************************************************************)
(* A model of data structures and search routines of utility-belt.         *)
(*                                                                         *)
(* CartesianTree (src/src/misc/cartesian_tree.rs) is an arena of CTNode    *)
(* records addressed by handles plus an optional root handle.  Every       *)
(* private recursive method of the tree is an operator over the arena with *)
(* the same name; every public mutating method is an action.  The          *)
(* read-only methods (get, index, get_index, len, is_empty) are operators  *)
(* over the current state.  ImplicitTreap                                  *)
(* (src/src/misc/implicit_treap.rs), the two UnionFind structures          *)
(* (src/src/misc/union_find.rs, src/src/math/union_find.rs) and            *)
(* FenwickTree (src/src/math/cumsum/fenwick_tree.rs) are modelled the same *)
(* way.  path_contraction (src/src/misc/mod.rs) and astar                  *)
(* (src/src/search/astar.rs) are functions: their arguments are drawn in   *)
(* the initial state and their loops run one pass per step.  Each          *)
(* component has its own variables and its own specification.              *)
(***************************************************************************)
EXTENDS Integers, Sequences, FiniteSets, TLC

\* Keys are 1..NumKeys, values 1..NumVals, priorities 1..MaxPrio.
NumKeys == 3
NumVals == 2
MaxPrio == 3

Keys == 1..NumKeys
Vals == 1..NumVals
Prios == 1..MaxPrio
\* Ranks handed to get_index / remove_index: every valid rank and one past
\* the largest possible len().
Ranks == 0..NumKeys
\* remove_index on a node with two children, one of which has a child of
\* its own, takes four nodes: MoreKeys is one key larger than Keys and
\* MoreRanks reaches one past its largest len().
MoreKeys == 1..(NumKeys + 1)
MoreRanks == 0..(NumKeys + 1)
\* A tree never holds more nodes than there are keys.
Handles == 1..(NumKeys + 1)

\* ImplicitTreap: inserts are taken while the sequence is shorter than MaxLen.
MaxLen == 3
\* Positions handed to insert / remove: every valid one and past the end.
Positions == 0..(MaxLen + 1)
ItHandles == 1..MaxLen
\* usize::MAX.  Only its being larger than every length matters here, so the
\* model keeps 16 of the 64 bits.
UsizeMax == 2^16 - 1

\* UnionFind: at most UfMax elements are added; UfMax itself is an index
\* that is never added; extend adds up to MaxExtend sets in one call.
UfMax == 4
MaxExtend == 2
UfIndices == 0..UfMax

\* path_contraction: the states are 0..NumPcStates-1, the successor is any
\* function on them, and usize is PcWidth bits wide, so that `iterations`
\* ranges over every usize value.
NumPcStates == 3
PcWidth == 4
PcStates == 0..(NumPcStates - 1)
PcModulus == 2^PcWidth
PcUsize == 0..(PcModulus - 1)

\* astar: the nodes are 0..NumAsNodes-1, an edge costs 1..MaxCost and the
\* heuristic returns 0..MaxH.
NumAsNodes == 3
MaxCost == 2
MaxH == 1
AsNodes == 0..(NumAsNodes - 1)
\* What successors(n) can return: for every node the cost of the edge to
\* it, 0 standing for no edge.
AsSuccessorLists == [AsNodes -> 0..MaxCost]

\* math::UnionFind: at most MuMax sets are made; MuMax itself is an index
\* that is never made.
MuMax == 4
MuIndices == 0..MuMax

\* A removal whose recursion is still running after RemoveFuel calls is
\* counted as not ending.
RemoveFuel == 4 * NumKeys + 4

\* FenwickTree: trees of up to MaxSize values; a delta is -1 or 1 and an add
\* is taken while the total at its index stays within -MaxTotal..MaxTotal.
MaxSize == 4
MaxTotal == 1
FtDeltas == {-1, 1}
FtTotals == (0 - MaxTotal)..MaxTotal
\* The indices handed to add: every valid one and one past the end.
FtIndices == 0..MaxSize

\* Option<T>: None is the empty sequence, Some(x) a one-element sequence.
None == <<>>
Some(x) == <<x>>
\* Option<Index>: the absent handle.
NoIdx == 0

\* CartesianTree: the tree, the last public call and what it returned.
VARIABLES root, arena, op, ret
\* The key-value map the calls so far describe (kept beside the tree, never
\* read by it).
VARIABLE live

\* ImplicitTreap: the treap, the last public call, what it returned, and
\* whether a call has panicked.
VARIABLES it_root, it_arena, it_op, it_ret, it_panic

\* UnionFind: the two vectors, the last public call, what it returned,
\* whether a call has panicked, and the pairs handed to union so far (kept
\* beside the structure, never read by it).
VARIABLES parents, sizes, uf_op, uf_ret, uf_panic, uf_pairs

\* path_contraction: the arguments of the call, whether the build checks
\* integer overflow, the locals of the loop, the returned state and whether
\* the call has panicked.
VARIABLES pc_successor, pc_start, pc_iterations, pc_overflow_checks,
          pc_shortcuts, pc_cur, pc_cur_iter, pc_ret, pc_panic

\* astar: the start node, the node goal() accepts, what successors() has
\* returned so far, the locals open_set and parents, where the call is
\* ("idle", "running", "returned", or "diverged" when reconstruct_path never
\* ends), and the returned option.
VARIABLES as_start, as_goal, as_successors, as_open_set, as_parents,
          as_state, as_ret

\* math::UnionFind: the two vectors, the last call and what it returned.
VARIABLES mu_parents, mu_sizes, mu_op, mu_ret

\* FenwickTree: the vector tree (empty while no tree has been constructed),
\* the last call, and whether a call has panicked.  ft_values is the plain
\* array of per-index totals the calls so far describe (kept beside the
\* tree, never read by it).
VARIABLES ft_tree, ft_values, ft_op, ft_panic

ctVars == <<root, arena, op, ret, live>>
itVars == <<it_root, it_arena, it_op, it_ret, it_panic>>
ufVars == <<parents, sizes, uf_op, uf_ret, uf_panic, uf_pairs>>

pcVars == <<pc_successor, pc_start, pc_iterations, pc_overflow_checks,
           pc_shortcuts, pc_cur, pc_cur_iter, pc_ret, pc_panic>>

asVars == <<as_start, as_goal, as_successors, as_open_set, as_parents,
           as_state, as_ret>>

muVars == <<mu_parents, mu_sizes, mu_op, mu_ret>>

ftVars == <<ft_tree, ft_values, ft_op, ft_panic>>

vars == <<ctVars, itVars, ufVars, pcVars, asVars, muVars, ftVars>>

----------------------------------------------------------------------------
\* The arena (thunderdome::Arena): a map from the live handles to nodes.

CTNode(key, value, priority) ==
    [key |-> key, value |-> value, priority |-> priority,
     left |-> NoIdx, right |-> NoIdx, count |-> 1]

\* Arena::insert: the node goes to a free slot; its handle is returned.
arena_new_index(a) == CHOOSE h \in Handles \ DOMAIN a :
                          \A g \in Handles \ DOMAIN a : h <= g

arena_insert(a, h, node) ==
    [g \in DOMAIN a \cup {h} |-> IF g = h THEN node ELSE a[g]]

\* Arena::remove: the slot is freed.
arena_remove(a, h) == [g \in DOMAIN a \ {h} |-> a[g]]

\* `.map_or(0, |l| self.arena.get(l).unwrap().count)`
count_of(a, h) == IF h = NoIdx THEN 0 ELSE a[h].count

\* Mutant: the right subtree is left out of the count.
update_count_no_right(a, r) ==
    IF r = NoIdx THEN a
    ELSE [a EXCEPT ![r].count = 1 + count_of(a, a[r].left)]

update_count(a, r) ==
    IF r = NoIdx THEN a
    ELSE [a EXCEPT ![r].count = 1 + count_of(a, a[r].left) + count_of(a, a[r].right)]

\* Rotations return the arena and the new subtree root (NoIdx on the `?`
\* early returns).
\* Mutant: the old root is hung on the wrong side of the promoted child.
rotate_right_wrong_side(a, r) ==
    IF r = NoIdx THEN [arena |-> a, root |-> NoIdx]
    ELSE IF a[r].left = NoIdx THEN [arena |-> a, root |-> NoIdx]
    ELSE LET left_idx == a[r].left
             left_right == a[left_idx].right
             a1 == [a EXCEPT ![left_idx].left = r]
             a2 == [a1 EXCEPT ![r].left = left_right]
         IN [arena |-> update_count(a2, r), root |-> left_idx]

\* Mutant: the early return tests the wrong child.
rotate_right_tests_right(a, r) ==
    IF r = NoIdx THEN [arena |-> a, root |-> NoIdx]
    ELSE IF a[r].right = NoIdx THEN [arena |-> a, root |-> NoIdx]
    ELSE LET left_idx == a[r].left
             left_right == a[left_idx].right
             a1 == [a EXCEPT ![left_idx].right = r]
             a2 == [a1 EXCEPT ![r].left = left_right]
         IN [arena |-> update_count(a2, r), root |-> left_idx]

rotate_right(a, r) ==
    IF r = NoIdx THEN [arena |-> a, root |-> NoIdx]
    ELSE IF a[r].left = NoIdx THEN [arena |-> a, root |-> NoIdx]
    ELSE LET left_idx == a[r].left
             left_right == a[left_idx].right
             a1 == [a EXCEPT ![left_idx].right = r]
             a2 == [a1 EXCEPT ![r].left = left_right]
         IN [arena |-> update_count(a2, r), root |-> left_idx]

\* Mutant: the rotation leaves the subtree as it is.
rotate_left_in_place(a, r) == [arena |-> a, root |-> r]

rotate_left(a, r) ==
    IF r = NoIdx THEN [arena |-> a, root |-> NoIdx]
    ELSE IF a[r].right = NoIdx THEN [arena |-> a, root |-> NoIdx]
    ELSE LET right_idx == a[r].right
             right_left == a[right_idx].left
             a1 == [a EXCEPT ![right_idx].left = r]
             a2 == [a1 EXCEPT ![r].right = right_left]
         IN [arena |-> update_count(a2, r), root |-> right_idx]

----------------------------------------------------------------------------
\* Read-only navigation.

RECURSIVE search(_, _, _)
search(a, r, key) ==
    IF r = NoIdx THEN None
    ELSE IF key = a[r].key THEN Some(<<a[r].value, a[r].priority>>)
    ELSE IF key > a[r].key THEN search(a, a[r].right, key)
    ELSE search(a, a[r].left, key)

RECURSIVE index_of(_, _, _)
\* Mutant: the root is not counted when the key lies in the right subtree.
index_of_no_root(a, r, key) ==
    IF r = NoIdx THEN None
    ELSE LET left_count == count_of(a, a[r].left)
         IN IF key = a[r].key THEN Some(left_count)
            ELSE IF key > a[r].key
                 THEN LET i == index_of(a, a[r].right, key)
                      IN IF i = None THEN None ELSE Some(i[1] + left_count)
                 ELSE index_of(a, a[r].left, key)

index_of(a, r, key) ==
    IF r = NoIdx THEN None
    ELSE LET left_count == count_of(a, a[r].left)
         IN IF key = a[r].key THEN Some(left_count)
            ELSE IF key > a[r].key
                 THEN LET i == index_of(a, a[r].right, key)
                      IN IF i = None THEN None ELSE Some(i[1] + 1 + left_count)
                 ELSE index_of(a, a[r].left, key)

RECURSIVE kth_largest_of(_, _, _)
\* Mutant: the root is not discounted when descending right.
kth_largest_of_no_root(a, r, k) ==
    IF r = NoIdx THEN None
    ELSE LET left_count == count_of(a, a[r].left)
         IN IF k = left_count THEN Some(<<a[r].key, a[r].value, a[r].priority>>)
            ELSE IF k < left_count THEN kth_largest_of(a, a[r].left, k)
            ELSE kth_largest_of(a, a[r].right, k - left_count)

kth_largest_of(a, r, k) ==
    IF r = NoIdx THEN None
    ELSE LET left_count == count_of(a, a[r].left)
         IN IF k = left_count THEN Some(<<a[r].key, a[r].value, a[r].priority>>)
            ELSE IF k < left_count THEN kth_largest_of(a, a[r].left, k)
            ELSE kth_largest_of(a, a[r].right, k - left_count - 1)

----------------------------------------------------------------------------
\* insert_kv returns the arena and the new subtree root.

RECURSIVE insert_kv(_, _, _, _, _)
\* Mutant: an insert of a present key leaves the stored value alone.
insert_kv_keeps_value(a, r, key, value, priority) ==
    IF r = NoIdx
    THEN LET h == arena_new_index(a)
         IN [arena |-> arena_insert(a, h, CTNode(key, value, priority)), root |-> h]
    ELSE IF key = a[r].key
    THEN [arena |-> a, root |-> r]
    ELSE IF key < a[r].key
    THEN LET sub == insert_kv(a, a[r].left, key, value, priority)
             a1 == [sub.arena EXCEPT ![r].left = sub.root]
             root_priority == a1[r].priority
             rot == IF a1[sub.root].priority > root_priority
                    THEN rotate_right(a1, r)
                    ELSE [arena |-> a1, root |-> r]
         IN [arena |-> update_count(rot.arena, rot.root), root |-> rot.root]
    ELSE LET sub == insert_kv(a, a[r].right, key, value, priority)
             a1 == [sub.arena EXCEPT ![r].right = sub.root]
             root_priority == a1[r].priority
             rot == IF a1[sub.root].priority > root_priority
                    THEN rotate_left(a1, r)
                    ELSE [arena |-> a1, root |-> r]
         IN [arena |-> update_count(rot.arena, rot.root), root |-> rot.root]

insert_kv(a, r, key, value, priority) ==
    IF r = NoIdx
    THEN LET h == arena_new_index(a)
         IN [arena |-> arena_insert(a, h, CTNode(key, value, priority)), root |-> h]
    ELSE IF key = a[r].key
    THEN [arena |-> [a EXCEPT ![r].value = value], root |-> r]
    ELSE IF key < a[r].key
    THEN LET sub == insert_kv(a, a[r].left, key, value, priority)
             a1 == [sub.arena EXCEPT ![r].left = sub.root]
             root_priority == a1[r].priority
             rot == IF a1[sub.root].priority > root_priority
                    THEN rotate_right(a1, r)
                    ELSE [arena |-> a1, root |-> r]
         IN [arena |-> update_count(rot.arena, rot.root), root |-> rot.root]
    ELSE LET sub == insert_kv(a, a[r].right, key, value, priority)
             a1 == [sub.arena EXCEPT ![r].right = sub.root]
             root_priority == a1[r].priority
             rot == IF a1[sub.root].priority > root_priority
                    THEN rotate_left(a1, r)
                    ELSE [arena |-> a1, root |-> r]
         IN [arena |-> update_count(rot.arena, rot.root), root |-> rot.root]

----------------------------------------------------------------------------
\* remove_key returns the arena, the new subtree root and the removed
\* (value, priority), if any.

RECURSIVE remove_key(_, _, _)
\* Mutant: a node with only a right child takes that child out with it.
remove_key_drops_child(a, r, key) ==
    IF r = NoIdx THEN [arena |-> a, root |-> NoIdx, ret |-> None]
    ELSE IF key < a[r].key
    THEN LET sub == remove_key(a, a[r].left, key)
             a1 == [sub.arena EXCEPT ![r].left = sub.root]
         IN [arena |-> update_count(a1, r), root |-> r, ret |-> sub.ret]
    ELSE IF key > a[r].key
    THEN LET sub == remove_key(a, a[r].right, key)
             a1 == [sub.arena EXCEPT ![r].right = sub.root]
         IN [arena |-> update_count(a1, r), root |-> r, ret |-> sub.ret]
    ELSE \* We found the key.
    LET left == a[r].left
        right == a[r].right
        found == Some(<<a[r].value, a[r].priority>>)
    IN IF left = NoIdx /\ right = NoIdx
       THEN [arena |-> arena_remove(a, r), root |-> NoIdx, ret |-> found]
       ELSE IF left = NoIdx
       THEN [arena |-> arena_remove(a, r), root |-> NoIdx, ret |-> found]
       ELSE IF right = NoIdx
       THEN [arena |-> arena_remove(a, r), root |-> left, ret |-> found]
       ELSE \* We have both children.
       IF a[left].priority < a[right].priority
       THEN LET rot == rotate_right(a, r)
                sub == remove_key(rot.arena, rot.arena[rot.root].right, key)
                a1 == [sub.arena EXCEPT ![rot.root].right = sub.root]
            IN [arena |-> update_count(a1, rot.root), root |-> rot.root, ret |-> sub.ret]
       ELSE LET rot == rotate_left(a, r)
                sub == remove_key(rot.arena, rot.arena[rot.root].left, key)
                a1 == [sub.arena EXCEPT ![rot.root].left = sub.root]
            IN [arena |-> update_count(a1, rot.root), root |-> rot.root, ret |-> sub.ret]

remove_key(a, r, key) ==
    IF r = NoIdx THEN [arena |-> a, root |-> NoIdx, ret |-> None]
    ELSE IF key < a[r].key
    THEN LET sub == remove_key(a, a[r].left, key)
             a1 == [sub.arena EXCEPT ![r].left = sub.root]
         IN [arena |-> update_count(a1, r), root |-> r, ret |-> sub.ret]
    ELSE IF key > a[r].key
    THEN LET sub == remove_key(a, a[r].right, key)
             a1 == [sub.arena EXCEPT ![r].right = sub.root]
         IN [arena |-> update_count(a1, r), root |-> r, ret |-> sub.ret]
    ELSE \* We found the key.
    LET left == a[r].left
        right == a[r].right
        found == Some(<<a[r].value, a[r].priority>>)
    IN IF left = NoIdx /\ right = NoIdx
       THEN [arena |-> arena_remove(a, r), root |-> NoIdx, ret |-> found]
       ELSE IF left = NoIdx
       THEN [arena |-> arena_remove(a, r), root |-> right, ret |-> found]
       ELSE IF right = NoIdx
       THEN [arena |-> arena_remove(a, r), root |-> left, ret |-> found]
       ELSE \* We have both children.
       IF a[left].priority < a[right].priority
       THEN LET rot == rotate_right(a, r)
                sub == remove_key(rot.arena, rot.arena[rot.root].right, key)
                a1 == [sub.arena EXCEPT ![rot.root].right = sub.root]
            IN [arena |-> update_count(a1, rot.root), root |-> rot.root, ret |-> sub.ret]
       ELSE LET rot == rotate_left(a, r)
                sub == remove_key(rot.arena, rot.arena[rot.root].left, key)
                a1 == [sub.arena EXCEPT ![rot.root].left = sub.root]
            IN [arena |-> update_count(a1, rot.root), root |-> rot.root, ret |-> sub.ret]

\* remove_by_index returns the arena, the new subtree root and the removed
\* (key, value, priority), if any.

RECURSIVE remove_by_index(_, _, _)
\* Mutant: a node with only a right child takes that child out with it.
remove_by_index_drops_child(a, r, k) ==
    IF r = NoIdx THEN [arena |-> a, root |-> NoIdx, ret |-> None]
    ELSE
    LET left_count == count_of(a, a[r].left)
    IN IF k < left_count
       THEN LET sub == remove_by_index(a, a[r].left, k)
                a1 == [sub.arena EXCEPT ![r].left = sub.root]
            IN [arena |-> update_count(a1, r), root |-> r, ret |-> sub.ret]
       ELSE IF k > left_count
       THEN LET sub == remove_by_index(a, a[r].right, k - left_count - 1)
                a1 == [sub.arena EXCEPT ![r].right = sub.root]
            IN [arena |-> update_count(a1, r), root |-> r, ret |-> sub.ret]
       ELSE \* We found the kth element - it's the root
       LET left == a[r].left
           right == a[r].right
           found == Some(<<a[r].key, a[r].value, a[r].priority>>)
       IN IF left = NoIdx /\ right = NoIdx
          THEN [arena |-> arena_remove(a, r), root |-> NoIdx, ret |-> found]
          ELSE IF left = NoIdx
          THEN [arena |-> arena_remove(a, r), root |-> NoIdx, ret |-> found]
          ELSE IF right = NoIdx
          THEN [arena |-> arena_remove(a, r), root |-> left, ret |-> found]
          ELSE \* We have both children - rotate based on priority
          IF a[left].priority < a[right].priority
          THEN LET rot == rotate_left(a, r)
                   sub == remove_by_index(rot.arena, rot.root, k)
               IN [arena |-> update_count(sub.arena, sub.root),
                   root |-> sub.root, ret |-> sub.ret]
          ELSE LET rot == rotate_right(a, r)
                   new_left_count == count_of(rot.arena, rot.arena[rot.root].left)
                   sub == remove_by_index(rot.arena, rot.root, k - new_left_count - 1)
               IN [arena |-> update_count(sub.arena, sub.root),
                   root |-> sub.root, ret |-> sub.ret]

remove_by_index(a, r, k) ==
    IF r = NoIdx THEN [arena |-> a, root |-> NoIdx, ret |-> None]
    ELSE
    LET left_count == count_of(a, a[r].left)
    IN IF k < left_count
       THEN LET sub == remove_by_index(a, a[r].left, k)
                a1 == [sub.arena EXCEPT ![r].left = sub.root]
            IN [arena |-> update_count(a1, r), root |-> r, ret |-> sub.ret]
       ELSE IF k > left_count
       THEN LET sub == remove_by_index(a, a[r].right, k - left_count - 1)
                a1 == [sub.arena EXCEPT ![r].right = sub.root]
            IN [arena |-> update_count(a1, r), root |-> r, ret |-> sub.ret]
       ELSE \* We found the kth element - it's the root
       LET left == a[r].left
           right == a[r].right
           found == Some(<<a[r].key, a[r].value, a[r].priority>>)
       IN IF left = NoIdx /\ right = NoIdx
          THEN [arena |-> arena_remove(a, r), root |-> NoIdx, ret |-> found]
          ELSE IF left = NoIdx
          THEN [arena |-> arena_remove(a, r), root |-> right, ret |-> found]
          ELSE IF right = NoIdx
          THEN [arena |-> arena_remove(a, r), root |-> left, ret |-> found]
          ELSE \* We have both children - rotate based on priority
          IF a[left].priority < a[right].priority
          THEN LET rot == rotate_left(a, r)
                   sub == remove_by_index(rot.arena, rot.root, k)
               IN [arena |-> update_count(sub.arena, sub.root),
                   root |-> sub.root, ret |-> sub.ret]
          ELSE LET rot == rotate_right(a, r)
                   new_left_count == count_of(rot.arena, rot.arena[rot.root].left)
                   sub == remove_by_index(rot.arena, rot.root, k - new_left_count - 1)
               IN [arena |-> update_count(sub.arena, sub.root),
                   root |-> sub.root, ret |-> sub.ret]

----------------------------------------------------------------------------
\* How many calls of itself a removal makes, the first one included.  The
\* operators follow the recursion of remove_key and remove_by_index and stop
\* counting after `fuel` calls, so that a recursion that does not end shows
\* as a count above every bound.

RECURSIVE remove_key_calls(_, _, _, _)
remove_key_calls(a, r, key, fuel) ==
    IF fuel = 0 \/ r = NoIdx THEN 1
    ELSE IF key < a[r].key
    THEN 1 + remove_key_calls(a, a[r].left, key, fuel - 1)
    ELSE IF key > a[r].key
    THEN 1 + remove_key_calls(a, a[r].right, key, fuel - 1)
    ELSE IF a[r].left = NoIdx \/ a[r].right = NoIdx THEN 1
    ELSE IF a[a[r].left].priority < a[a[r].right].priority
    THEN LET rot == rotate_right(a, r)
         IN 1 + remove_key_calls(rot.arena, rot.arena[rot.root].right, key, fuel - 1)
    ELSE LET rot == rotate_left(a, r)
         IN 1 + remove_key_calls(rot.arena, rot.arena[rot.root].left, key, fuel - 1)

RECURSIVE remove_by_index_calls(_, _, _, _)
remove_by_index_calls(a, r, k, fuel) ==
    IF fuel = 0 \/ r = NoIdx THEN 1
    ELSE
    LET left_count == count_of(a, a[r].left)
    IN IF k < left_count
       THEN 1 + remove_by_index_calls(a, a[r].left, k, fuel - 1)
       ELSE IF k > left_count
       THEN 1 + remove_by_index_calls(a, a[r].right, k - left_count - 1, fuel - 1)
       ELSE IF a[r].left = NoIdx \/ a[r].right = NoIdx THEN 1
       ELSE IF a[a[r].left].priority < a[a[r].right].priority
       THEN LET rot == rotate_left(a, r)
            IN 1 + remove_by_index_calls(rot.arena, rot.root, k, fuel - 1)
       ELSE LET rot == rotate_right(a, r)
                new_left_count == count_of(rot.arena, rot.arena[rot.root].left)
            IN 1 + remove_by_index_calls(rot.arena, rot.root,
                                         k - new_left_count - 1, fuel - 1)

----------------------------------------------------------------------------
\* Where the methods above can panic: `arena.get(h).unwrap()` on a handle the
\* arena does not hold, `.unwrap()` of an absent child or root,
\* `unreachable!` after a rotation that returned None, and a usize
\* subtraction that would go below 0.  Each predicate follows the control
\* flow of its method and is TRUE iff the call reaches one of these.

\* `self.arena.get(h).unwrap()`
get_panics(a, h) == h \notin DOMAIN a

\* `.map_or(0, |l| self.arena.get(l).unwrap().count)`
count_of_panics(a, h) == h # NoIdx /\ get_panics(a, h)

update_count_panics(a, r) ==
    /\ r # NoIdx
    /\ \/ get_panics(a, r)
       \/ count_of_panics(a, a[r].left)
       \/ count_of_panics(a, a[r].right)

rotate_right_panics(a, r) ==
    /\ r # NoIdx
    /\ \/ get_panics(a, r)
       \/ /\ a[r].left # NoIdx
          /\ \/ get_panics(a, a[r].left)
             \/ update_count_panics(rotate_right(a, r).arena, r)

rotate_left_panics(a, r) ==
    /\ r # NoIdx
    /\ \/ get_panics(a, r)
       \/ /\ a[r].right # NoIdx
          /\ \/ get_panics(a, a[r].right)
             \/ update_count_panics(rotate_left(a, r).arena, r)

len_panics == root # NoIdx /\ get_panics(arena, root)

RECURSIVE search_panics(_, _, _)
search_panics(a, r, key) ==
    /\ r # NoIdx
    /\ \/ get_panics(a, r)
       \/ /\ key > a[r].key
          /\ search_panics(a, a[r].right, key)
       \/ /\ key < a[r].key
          /\ search_panics(a, a[r].left, key)

RECURSIVE index_of_panics(_, _, _)
index_of_panics(a, r, key) ==
    /\ r # NoIdx
    /\ \/ get_panics(a, r)
       \/ count_of_panics(a, a[r].left)
       \/ /\ key > a[r].key
          /\ index_of_panics(a, a[r].right, key)
       \/ /\ key < a[r].key
          /\ index_of_panics(a, a[r].left, key)

RECURSIVE kth_largest_of_panics(_, _, _)
kth_largest_of_panics(a, r, k) ==
    /\ r # NoIdx
    /\ \/ get_panics(a, r)
       \/ count_of_panics(a, a[r].left)
       \/ /\ k < count_of(a, a[r].left)
          /\ kth_largest_of_panics(a, a[r].left, k)
       \/ /\ k > count_of(a, a[r].left)
          /\ \/ k - count_of(a, a[r].left) - 1 < 0
             \/ kth_largest_of_panics(a, a[r].right, k - count_of(a, a[r].left) - 1)

RECURSIVE insert_kv_panics(_, _, _, _, _)
insert_kv_panics(a, r, key, value, priority) ==
    /\ r # NoIdx
    /\ \/ get_panics(a, r)
       \/ /\ key < a[r].key
          /\ \/ insert_kv_panics(a, a[r].left, key, value, priority)
             \/ LET sub == insert_kv(a, a[r].left, key, value, priority)
                    a1 == [sub.arena EXCEPT ![r].left = sub.root]
                IN \/ get_panics(sub.arena, r)
                   \/ sub.root = NoIdx
                   \/ get_panics(a1, sub.root)
                   \/ IF a1[sub.root].priority > a1[r].priority
                      THEN \/ rotate_right_panics(a1, r)
                           \/ update_count_panics(rotate_right(a1, r).arena,
                                                  rotate_right(a1, r).root)
                      ELSE update_count_panics(a1, r)
       \/ /\ key > a[r].key
          /\ \/ insert_kv_panics(a, a[r].right, key, value, priority)
             \/ LET sub == insert_kv(a, a[r].right, key, value, priority)
                    a1 == [sub.arena EXCEPT ![r].right = sub.root]
                IN \/ get_panics(sub.arena, r)
                   \/ sub.root = NoIdx
                   \/ get_panics(a1, sub.root)
                   \/ IF a1[sub.root].priority > a1[r].priority
                      THEN \/ rotate_left_panics(a1, r)
                           \/ update_count_panics(rotate_left(a1, r).arena,
                                                  rotate_left(a1, r).root)
                      ELSE update_count_panics(a1, r)

RECURSIVE remove_key_panics(_, _, _)
remove_key_panics(a, r, key) ==
    /\ r # NoIdx
    /\ \/ get_panics(a, r)
       \/ /\ key < a[r].key
          /\ \/ remove_key_panics(a, a[r].left, key)
             \/ LET sub == remove_key(a, a[r].left, key)
                IN \/ get_panics(sub.arena, r)
                   \/ update_count_panics([sub.arena EXCEPT ![r].left = sub.root], r)
       \/ /\ key > a[r].key
          /\ \/ remove_key_panics(a, a[r].right, key)
             \/ LET sub == remove_key(a, a[r].right, key)
                IN \/ get_panics(sub.arena, r)
                   \/ update_count_panics([sub.arena EXCEPT ![r].right = sub.root], r)
       \/ /\ key = a[r].key
          /\ a[r].left # NoIdx
          /\ a[r].right # NoIdx
          /\ \/ get_panics(a, a[r].left)
             \/ get_panics(a, a[r].right)
             \/ IF a[a[r].left].priority < a[a[r].right].priority
                THEN \/ rotate_right_panics(a, r)
                     \/ LET rot == rotate_right(a, r)
                        IN \/ rot.root = NoIdx     \* unreachable!
                           \/ get_panics(rot.arena, rot.root)
                           \/ remove_key_panics(rot.arena, rot.arena[rot.root].right, key)
                           \/ LET sub == remove_key(rot.arena, rot.arena[rot.root].right, key)
                              IN \/ get_panics(sub.arena, rot.root)
                                 \/ update_count_panics(
                                        [sub.arena EXCEPT ![rot.root].right = sub.root],
                                        rot.root)
                ELSE \/ rotate_left_panics(a, r)
                     \/ LET rot == rotate_left(a, r)
                        IN \/ rot.root = NoIdx     \* unreachable!
                           \/ get_panics(rot.arena, rot.root)
                           \/ remove_key_panics(rot.arena, rot.arena[rot.root].left, key)
                           \/ LET sub == remove_key(rot.arena, rot.arena[rot.root].left, key)
                              IN \/ get_panics(sub.arena, rot.root)
                                 \/ update_count_panics(
                                        [sub.arena EXCEPT ![rot.root].left = sub.root],
                                        rot.root)

RECURSIVE remove_by_index_panics(_, _, _)
remove_by_index_panics(a, r, k) ==
    /\ r # NoIdx
    /\ \/ get_panics(a, r)
       \/ count_of_panics(a, a[r].left)
       \/ /\ k < count_of(a, a[r].left)
          /\ \/ remove_by_index_panics(a, a[r].left, k)
             \/ LET sub == remove_by_index(a, a[r].left, k)
                IN \/ get_panics(sub.arena, r)
                   \/ update_count_panics([sub.arena EXCEPT ![r].left = sub.root], r)
       \/ /\ k > count_of(a, a[r].left)
          /\ \/ k - count_of(a, a[r].left) - 1 < 0
             \/ remove_by_index_panics(a, a[r].right, k - count_of(a, a[r].left) - 1)
             \/ LET sub == remove_by_index(a, a[r].right, k - count_of(a, a[r].left) - 1)
                IN \/ get_panics(sub.arena, r)
                   \/ update_count_panics([sub.arena EXCEPT ![r].right = sub.root], r)
       \/ /\ k = count_of(a, a[r].left)
          /\ a[r].left # NoIdx
          /\ a[r].right # NoIdx
          /\ \/ get_panics(a, a[r].left)
             \/ get_panics(a, a[r].right)
             \/ IF a[a[r].left].priority < a[a[r].right].priority
                THEN \/ rotate_left_panics(a, r)
                     \/ LET rot == rotate_left(a, r)
                        IN \/ remove_by_index_panics(rot.arena, rot.root, k)
                           \/ LET sub == remove_by_index(rot.arena, rot.root, k)
                              IN \/ sub.root = NoIdx     \* new_root.unwrap()
                                 \/ update_count_panics(sub.arena, sub.root)
                ELSE \/ rotate_right_panics(a, r)
                     \/ LET rot == rotate_right(a, r)
                        IN \/ rot.root = NoIdx           \* new_root.unwrap()
                           \/ get_panics(rot.arena, rot.root)
                           \/ count_of_panics(rot.arena, rot.arena[rot.root].left)
                           \/ LET k2 == k - count_of(rot.arena, rot.arena[rot.root].left) - 1
                              IN \/ k2 < 0
                                 \/ remove_by_index_panics(rot.arena, rot.root, k2)
                                 \/ LET sub == remove_by_index(rot.arena, rot.root, k2)
                                    IN \/ sub.root = NoIdx     \* new_root.unwrap()
                                       \/ update_count_panics(sub.arena, sub.root)

----------------------------------------------------------------------------
\* The public read-only methods, on the current state.

is_empty == root = NoIdx

len == IF root # NoIdx THEN arena[root].count ELSE 0

get(key) == search(arena, root, key)

index(key) == index_of(arena, root, key)

get_index(k) == kth_largest_of(arena, root, k)

----------------------------------------------------------------------------
\* ImplicitTreap.  split returns the arena and the two halves, merge the
\* arena and the merged root.

Node(value, priority) ==
    [value |-> value, priority |-> priority, size |-> 1,
     left |-> NoIdx, right |-> NoIdx]

\* Arena::insert: the node goes to a free slot; its handle is returned.
it_new_index(a) == CHOOSE h \in ItHandles \ DOMAIN a :
                       \A g \in ItHandles \ DOMAIN a : h <= g

it_size(a, node) == IF node # NoIdx THEN a[node].size ELSE 0

\* Mutant: the right subtree is left out of the size.
it_update_size_no_right(a, node) ==
    IF node = NoIdx THEN a
    ELSE [a EXCEPT ![node].size =
              it_size(a, a[node].left) + 1]

it_update_size(a, node) ==
    IF node = NoIdx THEN a
    ELSE [a EXCEPT ![node].size =
              it_size(a, a[node].left) + 1 + it_size(a, a[node].right)]

RECURSIVE it_find(_, _, _)
it_find(a, t, pos) ==
    IF t = NoIdx THEN NoIdx
    ELSE LET current_pos == it_size(a, a[t].left) + 1
         IN IF pos < current_pos THEN it_find(a, a[t].left, pos)
            ELSE IF pos > current_pos THEN it_find(a, a[t].right, pos - current_pos)
            ELSE t

RECURSIVE it_split(_, _, _, _)
\* Mutant: the element at `pos` itself goes to the right half.
it_split_strict(a, t, pos, add) ==
    IF t = NoIdx THEN [arena |-> a, l |-> NoIdx, r |-> NoIdx]
    ELSE LET current_pos == it_size(a, a[t].left) + add
         IN IF current_pos < pos
            THEN LET sub == it_split(a, a[t].right, pos, current_pos + 1)
                     a1 == [sub.arena EXCEPT ![t].right = sub.l]
                 IN [arena |-> it_update_size(a1, t), l |-> t, r |-> sub.r]
            ELSE LET sub == it_split(a, a[t].left, pos, add)
                     a1 == [sub.arena EXCEPT ![t].left = sub.r]
                 IN [arena |-> it_update_size(a1, t), l |-> sub.l, r |-> t]

it_split(a, t, pos, add) ==
    IF t = NoIdx THEN [arena |-> a, l |-> NoIdx, r |-> NoIdx]
    ELSE LET current_pos == it_size(a, a[t].left) + add
         IN IF current_pos <= pos
            THEN LET sub == it_split(a, a[t].right, pos, current_pos + 1)
                     a1 == [sub.arena EXCEPT ![t].right = sub.l]
                 IN [arena |-> it_update_size(a1, t), l |-> t, r |-> sub.r]
            ELSE LET sub == it_split(a, a[t].left, pos, add)
                     a1 == [sub.arena EXCEPT ![t].left = sub.r]
                 IN [arena |-> it_update_size(a1, t), l |-> sub.l, r |-> t]

RECURSIVE it_merge(_, _, _)
\* Mutant: the root of lower priority becomes the parent.
it_merge_lower_root(a, l, r) ==
    IF l = NoIdx \/ r = NoIdx
    THEN [arena |-> a, root |-> IF l # NoIdx THEN l ELSE r]
    ELSE IF a[l].priority < a[r].priority
    THEN LET sub == it_merge(a, a[l].right, r)
             a1 == [sub.arena EXCEPT ![l].right = sub.root]
         IN [arena |-> it_update_size(a1, l), root |-> l]
    ELSE LET sub == it_merge(a, l, a[r].left)
             a1 == [sub.arena EXCEPT ![r].left = sub.root]
         IN [arena |-> it_update_size(a1, r), root |-> r]

it_merge(a, l, r) ==
    IF l = NoIdx \/ r = NoIdx
    THEN [arena |-> a, root |-> IF l # NoIdx THEN l ELSE r]
    ELSE IF a[l].priority > a[r].priority
    THEN LET sub == it_merge(a, a[l].right, r)
             a1 == [sub.arena EXCEPT ![l].right = sub.root]
         IN [arena |-> it_update_size(a1, l), root |-> l]
    ELSE LET sub == it_merge(a, l, a[r].left)
             a1 == [sub.arena EXCEPT ![r].left = sub.root]
         IN [arena |-> it_update_size(a1, r), root |-> r]

\* insert returns the arena, the new root and the returned handle.
\* Mutant: the split is taken one position too far to the right.
it_insert_split_at_pos(a, t, pos, value, priority) ==
    LET node == it_new_index(a)
        a0 == arena_insert(a, node, Node(value, priority))
        sp == IF pos = 0 THEN [arena |-> a0, l |-> NoIdx, r |-> t]
              ELSE it_split(a0, t, pos, 0)
        left_treap == it_merge(sp.arena, sp.l, node)
        result == it_merge(left_treap.arena, left_treap.root, sp.r)
    IN [arena |-> result.arena, root |-> result.root, ret |-> result.root]

it_insert(a, t, pos, value, priority) ==
    LET node == it_new_index(a)
        a0 == arena_insert(a, node, Node(value, priority))
        sp == IF pos = 0 THEN [arena |-> a0, l |-> NoIdx, r |-> t]
              ELSE it_split(a0, t, pos - 1, 0)
        left_treap == it_merge(sp.arena, sp.l, node)
        result == it_merge(left_treap.arena, left_treap.root, sp.r)
    IN [arena |-> result.arena, root |-> result.root, ret |-> result.root]

\* remove returns the arena, the new root and the removed value, if any.
\* Mutant: the split is taken one position too far to the right.
it_remove_split_at_pos(a, t, pos) ==
    LET sp1 == IF pos = 0 THEN [arena |-> a, l |-> NoIdx, r |-> t]
               ELSE it_split(a, t, pos, 0)
        sp2 == it_split(sp1.arena, sp1.r, 0, 0)
        merged == it_merge(sp2.arena, sp1.l, sp2.r)
        m == sp2.l
    IN IF m = NoIdx
       THEN [arena |-> merged.arena, root |-> merged.root, ret |-> None]
       ELSE [arena |-> arena_remove(merged.arena, m), root |-> merged.root,
             ret |-> Some(merged.arena[m].value)]

\* Mutant: the split is taken one position too far to the left.
it_remove_off_by_one(a, t, pos) ==
    LET sp1 == IF pos = 0 THEN [arena |-> a, l |-> NoIdx, r |-> t]
               ELSE it_split(a, t, pos - 2, 0)
        sp2 == it_split(sp1.arena, sp1.r, 0, 0)
        merged == it_merge(sp2.arena, sp1.l, sp2.r)
        m == sp2.l
    IN IF m = NoIdx
       THEN [arena |-> merged.arena, root |-> merged.root, ret |-> None]
       ELSE [arena |-> arena_remove(merged.arena, m), root |-> merged.root,
             ret |-> Some(merged.arena[m].value)]

it_remove(a, t, pos) ==
    LET sp1 == IF pos = 0 THEN [arena |-> a, l |-> NoIdx, r |-> t]
               ELSE it_split(a, t, pos - 1, 0)
        sp2 == it_split(sp1.arena, sp1.r, 0, 0)
        merged == it_merge(sp2.arena, sp1.l, sp2.r)
        m == sp2.l
    IN IF m = NoIdx
       THEN [arena |-> merged.arena, root |-> merged.root, ret |-> None]
       ELSE [arena |-> arena_remove(merged.arena, m), root |-> merged.root,
             ret |-> Some(merged.arena[m].value)]

\* The public read-only methods, on the current state.
it_is_empty == it_root = NoIdx

it_len == it_size(it_arena, it_root)

\* Index::index, as an option instead of `expect("index out of bounds")`.
it_index(a, t, pos) ==
    LET node == it_find(a, t, pos + 1)
    IN IF node = NoIdx THEN None ELSE Some(a[node].value)

----------------------------------------------------------------------------
\* misc::UnionFind.  The vectors parents and sizes are sequences; the
\* element with the 0-based index i is at position i + 1.

At(v, i) == v[i + 1]

Upd(v, i, x) == [v EXCEPT ![i + 1] = x]

\* The loop of find, with its two writes per pass.
RECURSIVE uf_find_loop(_, _)
uf_find_loop(p, x) ==
    IF At(p, x) = x
    THEN [parents |-> p, ret |-> Some(x)]
    ELSE LET new_x == At(p, x)
             new_parent_x == At(p, new_x)
             p_x == At(p, x)
             p1 == Upd(p, p_x, new_parent_x)
             p2 == Upd(p1, x, new_x)
         IN uf_find_loop(p2, new_x)

\* find returns the vector parents as it leaves it, and the option.
uf_find(p, x) ==
    IF x >= Len(p)
    THEN [parents |-> p, ret |-> None]
    ELSE uf_find_loop(p, x)

uf_add_set(p, sz) ==
    [parents |-> Append(p, Len(p)), sizes |-> Append(sz, 1), ret |-> Len(p)]

uf_extend(p, sz, n) ==
    [parents |-> p \o [i \in 1..n |-> Len(p) + i - 1],
     sizes |-> sz \o [i \in 1..n |-> 1],
     ret |-> [i \in 1..n |-> Len(p) + i - 1]]

uf_size_of_set(p, sz, x) ==
    LET f == uf_find(p, x)
    IN [parents |-> f.parents,
        ret |-> IF f.ret = None THEN None ELSE Some(At(sz, f.ret[1]))]

\* Mutant: the element y, not the root of its set, is linked below x's root.
uf_union_links_element(p, sz, x, y) ==
    LET fx == uf_find(p, x)
        fy == uf_find(fx.parents, y)
    IN IF fx.ret = None \/ fy.ret = None
       THEN [parents |-> fy.parents, sizes |-> sz, panic |-> TRUE]
       ELSE IF fx.ret = fy.ret
       THEN [parents |-> fy.parents, sizes |-> sz, panic |-> FALSE]
       ELSE LET swap == At(sz, fx.ret[1]) < At(sz, fy.ret[1])
                x_root == IF swap THEN fy.ret[1] ELSE fx.ret[1]
                y_root == IF swap THEN fx.ret[1] ELSE fy.ret[1]
                y_elem == IF swap THEN x ELSE y
            IN [parents |-> Upd(fy.parents, y_elem, x_root),
                sizes |-> Upd(sz, x_root, At(sz, x_root) + At(sz, y_root)),
                panic |-> FALSE]

\* union returns both vectors and whether the call panicked.
uf_union(p, sz, x, y) ==
    LET fx == uf_find(p, x)
        fy == uf_find(fx.parents, y)
    IN IF fx.ret = None \/ fy.ret = None
       THEN [parents |-> fy.parents, sizes |-> sz, panic |-> TRUE]
       ELSE IF fx.ret = fy.ret
       THEN [parents |-> fy.parents, sizes |-> sz, panic |-> FALSE]
       ELSE LET swap == At(sz, fx.ret[1]) < At(sz, fy.ret[1])
                x_root == IF swap THEN fy.ret[1] ELSE fx.ret[1]
                y_root == IF swap THEN fx.ret[1] ELSE fy.ret[1]
            IN [parents |-> Upd(fy.parents, y_root, x_root),
                sizes |-> Upd(sz, x_root, At(sz, x_root) + At(sz, y_root)),
                panic |-> FALSE]

----------------------------------------------------------------------------
----------------------------------------------------------------------------
\* path_contraction (src/src/misc/mod.rs).

\* Step 1 and Step 2: the shortcut stored for `n`, or one call of successor.
pc_step(shortcuts, successor, n) ==
    IF n \in DOMAIN shortcuts THEN shortcuts[n] ELSE <<successor[n], 1>>

\* HashMap::insert.
pc_insert(shortcuts, key, entry) ==
    [n \in DOMAIN shortcuts \cup {key} |->
        IF n = key THEN entry ELSE shortcuts[n]]

\* One pass of the loop with cur_iter # iterations.  An addition whose
\* result does not fit in usize panics when the build checks overflow and
\* wraps otherwise.
pc_pass(successor, iterations, checks, shortcuts, cur, cur_iter) ==
    LET step1 == pc_step(shortcuts, successor, cur)
        next1 == step1[1]
        iters_step1 == step1[2]
        step2 == pc_step(shortcuts, successor, next1)
        next2 == step2[1]
        iters_step2 == step2[2]
        sum1 == cur_iter + iters_step1
        sum2 == (sum1 % PcModulus) + iters_step2
        both == iters_step1 + iters_step2
    IN IF checks /\ (sum1 >= PcModulus \/ sum2 >= PcModulus)
       THEN [shortcuts |-> shortcuts, cur |-> cur, cur_iter |-> cur_iter,
             panic |-> TRUE]
       ELSE IF sum2 % PcModulus <= iterations
       THEN [shortcuts |-> pc_insert(shortcuts, cur, <<next2, both % PcModulus>>),
             cur |-> next2,
             cur_iter |-> (cur_iter + (both % PcModulus)) % PcModulus,
             panic |-> FALSE]
       ELSE IF sum1 % PcModulus <= iterations
       THEN [shortcuts |-> pc_insert(shortcuts, cur, <<next1, iters_step1>>),
             cur |-> next1,
             cur_iter |-> sum1 % PcModulus,
             panic |-> FALSE]
       ELSE [shortcuts |-> << >>, cur |-> successor[cur],
             cur_iter |-> cur_iter + 1, panic |-> FALSE]

\* Naive iteration: successor applied n times to x.
RECURSIVE Iterate(_, _, _)
Iterate(successor, x, n) ==
    IF n = 0 THEN x ELSE Iterate(successor, successor[x], n - 1)

----------------------------------------------------------------------------
\* astar (src/src/search/astar.rs).  An entry of open_set is <<f, g, node>>.

\* reconstruct_path: the loop follows parents from `cur`, pushing every node
\* it meets.  It ends at a node without a parent; when the chain comes back
\* to a node already pushed it never ends.  `result` is in push order.
RECURSIVE reconstruct_path_loop(_, _, _)
reconstruct_path_loop(parents_map, cur, result) ==
    IF cur \notin DOMAIN parents_map
    THEN [diverges |-> FALSE, result |-> result]
    ELSE LET next == parents_map[cur]
         IN IF \E i \in 1..Len(result) : result[i] = next
            THEN [diverges |-> TRUE, result |-> result]
            ELSE reconstruct_path_loop(parents_map, next, Append(result, next))

Reverse(sq) == [i \in 1..Len(sq) |-> sq[Len(sq) + 1 - i]]

reconstruct_path(parents_map, current) ==
    LET run == reconstruct_path_loop(parents_map, current, <<current>>)
    IN [diverges |-> run.diverges, result |-> Reverse(run.result)]

\* BinaryHeap::pop on (Reverse(f), Reverse(g), CmpEq(node)): an entry with
\* the least f and, among those, the least g; CmpEq makes the nodes equal, so
\* which of several such entries comes out is left open.
as_pop_candidates(open_set) ==
    {e \in open_set :
        \A d \in open_set : e[1] < d[1] \/ (e[1] = d[1] /\ e[2] <= d[2])}

\* The for loop over successors(current): every neighbour without a parent
\* gets `current` as parent and is pushed with g + cost; `h` is what the
\* heuristic returns for each neighbour.
as_new_neighbors(parents_map, list) ==
    {n \in AsNodes : list[n] # 0 /\ n \notin DOMAIN parents_map}

as_expand_parents(parents_map, current, list) ==
    [n \in DOMAIN parents_map \cup as_new_neighbors(parents_map, list) |->
        IF n \in DOMAIN parents_map THEN parents_map[n] ELSE current]

as_expand_open_set(open_set, parents_map, g, list, h) ==
    open_set \cup {<<g + list[n] + h[n], g + list[n], n>> :
                      n \in as_new_neighbors(parents_map, list)}

----------------------------------------------------------------------------
\* math::UnionFind (src/src/math/union_find.rs), with the vectors as in
\* misc::UnionFind.

RECURSIVE mu_find_loop(_, _)
mu_find_loop(p, x) ==
    IF At(p, x) = x
    THEN [parents |-> p, ret |-> Some(x)]
    ELSE LET new_x == At(p, x)
             new_parent_x == At(p, new_x)
             p_x == At(p, x)
             p1 == Upd(p, p_x, new_parent_x)
             p2 == Upd(p1, x, new_x)
         IN mu_find_loop(p2, new_x)

mu_find(p, x) ==
    IF x >= Len(p)
    THEN [parents |-> p, ret |-> None]
    ELSE mu_find_loop(p, x)

mu_make_set(p, sz) ==
    [parents |-> Append(p, Len(p)), sizes |-> Append(sz, 1), ret |-> Len(p)]

mu_size_of_set(p, sz, x) ==
    LET f == mu_find(p, x)
    IN [parents |-> f.parents,
        ret |-> IF f.ret = None THEN None ELSE Some(At(sz, f.ret[1]))]

\* roots: the set of the values stored in parents.
mu_roots(p) == {p[i] : i \in 1..Len(p)}

\* union returns both vectors and "Ok" or "Err".
mu_union(p, sz, x, y) ==
    LET fx == mu_find(p, x)
        fy == mu_find(fx.parents, y)
    IN IF fx.ret = None \/ fy.ret = None
       THEN [parents |-> fy.parents, sizes |-> sz, ret |-> "Err"]
       ELSE IF fx.ret = fy.ret
       THEN [parents |-> fy.parents, sizes |-> sz, ret |-> "Ok"]
       ELSE LET swap == At(sz, fx.ret[1]) < At(sz, fy.ret[1])
                x_root == IF swap THEN fy.ret[1] ELSE fx.ret[1]
                y_root == IF swap THEN fx.ret[1] ELSE fy.ret[1]
            IN [parents |-> Upd(fy.parents, y_root, x_root),
                sizes |-> Upd(sz, x_root, At(sz, x_root) + At(sz, y_root)),
                ret |-> "Ok"]

----------------------------------------------------------------------------
\* FenwickTree (src/src/math/cumsum/fenwick_tree.rs).  tree[i] of the code is
\* At(tree, i).

\* x & x.wrapping_neg(): the least significant one bit of x, 0 for 0.
RECURSIVE lso(_)
lso(x) ==
    IF x = 0 THEN 0
    ELSE IF x % 2 = 1 THEN 1
    ELSE 2 * lso(x \div 2)

\* vec![T::zero(); size + 1]
ft_new(size) == [i \in 1..(size + 1) |-> 0]

\* The while loop of add.
RECURSIVE ft_add_loop(_, _, _)
ft_add_loop(tree, i, delta) ==
    IF i < Len(tree)
    THEN ft_add_loop(Upd(tree, i, At(tree, i) + delta), i + lso(i), delta)
    ELSE tree

\* assert!(i < self.tree.len(), "index out of bounds") in add.
ft_add_panics(tree, idx) == ~(idx + 1 < Len(tree))

ft_add(tree, idx, delta) == ft_add_loop(tree, idx + 1, delta)

\* from_values: new, then one add per value.
RECURSIVE ft_from_values_loop(_, _, _)
ft_from_values_loop(tree, values, i) ==
    IF i >= Len(values) THEN tree
    ELSE ft_from_values_loop(ft_add(tree, i, values[i + 1]), values, i + 1)

ft_from_values(values) == ft_from_values_loop(ft_new(Len(values)), values, 0)

\* The while loop of query.
RECURSIVE ft_query_loop(_, _, _)
\* Mutant: the loop goes down one index at a time.
ft_query_loop_linear(tree, i, sum) ==
    IF i # 0
    THEN ft_query_loop(tree, i - 1, sum + At(tree, i))
    ELSE sum

ft_query_loop(tree, i, sum) ==
    IF i # 0
    THEN ft_query_loop(tree, i - lso(i), sum + At(tree, i))
    ELSE sum

\* assert!(idx < self.tree.len(), "index out of bounds") in query.
ft_query_panics(tree, idx) == ~(idx < Len(tree))

ft_query(tree, idx) == ft_query_loop(tree, idx, 0)

ft_range_sum_panics(tree, start, end) ==
    \/ ft_query_panics(tree, end)
    \/ start # 0 /\ ft_query_panics(tree, start)

ft_range_sum(tree, start, end) ==
    IF start = 0
    THEN ft_query(tree, end)
    ELSE ft_query(tree, end) - ft_query(tree, start)

ft_get_panics(tree, idx) ==
    idx < Len(tree) /\ ft_range_sum_panics(tree, idx, idx + 1)

ft_get(tree, idx) ==
    IF idx < Len(tree)
    THEN Some(ft_range_sum(tree, idx, idx + 1))
    ELSE None

ft_len(tree) == Len(tree) - 1

----------------------------------------------------------------------------
InitCT ==
    /\ root = NoIdx
    /\ arena = << >>
    /\ op = [name |-> "new"]
    /\ ret = None
    /\ live = << >>

InitIT ==
    /\ it_root = NoIdx
    /\ it_arena = << >>
    /\ it_op = [name |-> "new"]
    /\ it_ret = None
    /\ it_panic = FALSE

InitUF ==
    /\ parents = << >>
    /\ sizes = << >>
    /\ uf_op = [name |-> "default"]
    /\ uf_ret = None
    /\ uf_panic = FALSE
    /\ uf_pairs = {}

\* No call of path_contraction has been made.
InitPCIdle ==
    /\ pc_successor = << >>
    /\ pc_start = 0
    /\ pc_iterations = 0
    /\ pc_overflow_checks = TRUE
    /\ pc_shortcuts = << >>
    /\ pc_cur = 0
    /\ pc_cur_iter = 0
    /\ pc_ret = None
    /\ pc_panic = FALSE

\* No call of astar has been made.
InitASIdle ==
    /\ as_start = 0
    /\ as_goal = 0
    /\ as_successors = << >>
    /\ as_open_set = {}
    /\ as_parents = << >>
    /\ as_state = "idle"
    /\ as_ret = None

InitMU ==
    /\ mu_parents = << >>
    /\ mu_sizes = << >>
    /\ mu_op = [name |-> "default"]
    /\ mu_ret = None

\* No FenwickTree has been constructed.
InitFT ==
    /\ ft_tree = << >>
    /\ ft_values = << >>
    /\ ft_op = [name |-> "none"]
    /\ ft_panic = FALSE

Init ==
    /\ InitCT
    /\ InitIT
    /\ InitUF
    /\ InitPCIdle
    /\ InitASIdle
    /\ InitMU
    /\ InitFT

Insert(key, value, priority) ==
    LET res == insert_kv(arena, root, key, value, priority)
    IN /\ root' = res.root
       /\ arena' = res.arena
       /\ op' = [name |-> "insert", key |-> key, value |-> value, priority |-> priority]
       /\ ret' = None
       /\ live' = [k \in DOMAIN live \cup {key} |-> IF k = key THEN value ELSE live[k]]
       /\ UNCHANGED <<itVars, ufVars, pcVars, asVars, muVars, ftVars>>

Remove(key) ==
    LET res == remove_key(arena, root, key)
    IN /\ root' = res.root
       /\ arena' = res.arena
       /\ op' = [name |-> "remove", key |-> key]
       /\ ret' = res.ret
       /\ live' = [k \in DOMAIN live \ {key} |-> live[k]]
       /\ UNCHANGED <<itVars, ufVars, pcVars, asVars, muVars, ftVars>>

RemoveIndex(k) ==
    LET res == remove_by_index(arena, root, k)
    IN /\ root' = res.root
       /\ arena' = res.arena
       /\ op' = [name |-> "remove_index", k |-> k]
       /\ ret' = res.ret
       /\ live' = IF res.ret = None THEN live
                  ELSE [x \in DOMAIN live \ {res.ret[1][1]} |-> live[x]]
       /\ UNCHANGED <<itVars, ufVars, pcVars, asVars, muVars, ftVars>>

Next ==
    \/ \E key \in Keys, value \in Vals, priority \in Prios : Insert(key, value, priority)
    \/ \E key \in Keys : Remove(key)
    \/ \E k \in Ranks : RemoveIndex(k)

Spec == Init /\ [][Next]_vars

\* The keyed API alone: insert and remove(key), never remove_index.
NextInsertRemove ==
    \/ \E key \in Keys, value \in Vals, priority \in Prios : Insert(key, value, priority)
    \/ \E key \in Keys : Remove(key)

SpecInsertRemove == Init /\ [][NextInsertRemove]_vars

\* Only insert and remove_index are called, on MoreKeys and with one value.
NextInsertRemoveIndex ==
    \/ \E key \in MoreKeys, priority \in Prios : Insert(key, 1, priority)
    \/ \E k \in MoreRanks : RemoveIndex(k)

SpecInsertRemoveIndex == Init /\ [][NextInsertRemoveIndex]_vars

----------------------------------------------------------------------------
\* ImplicitTreap's public mutating methods.  `priority` is what rng.gen()
\* returns.  A panic ends the run.

ItInsert(pos, value, priority) ==
    /\ ~it_panic
    /\ it_len < MaxLen
    /\ LET res == it_insert(it_arena, it_root, pos, value, priority)
       IN /\ it_root' = res.root
          /\ it_arena' = res.arena
          /\ it_ret' = Some(res.ret)
    /\ it_op' = [name |-> "insert", pos |-> pos, value |-> value, priority |-> priority]
    /\ UNCHANGED <<it_panic, ctVars, ufVars, pcVars, asVars, muVars, ftVars>>

ItRemove(pos) ==
    /\ ~it_panic
    /\ LET res == it_remove(it_arena, it_root, pos)
       IN /\ it_root' = res.root
          /\ it_arena' = res.arena
          /\ it_ret' = res.ret
    /\ it_op' = [name |-> "remove", pos |-> pos]
    /\ UNCHANGED <<it_panic, ctVars, ufVars, pcVars, asVars, muVars, ftVars>>

ItPushBack(value, priority) ==
    /\ ~it_panic
    /\ it_len < MaxLen
    /\ LET res == it_insert(it_arena, it_root, it_len, value, priority)
       IN /\ it_root' = res.root
          /\ it_arena' = res.arena
    /\ it_ret' = None
    /\ it_op' = [name |-> "push_back", value |-> value, priority |-> priority]
    /\ UNCHANGED <<it_panic, ctVars, ufVars, pcVars, asVars, muVars, ftVars>>

ItPushFront(value, priority) ==
    /\ ~it_panic
    /\ it_len < MaxLen
    /\ LET res == it_insert(it_arena, it_root, 0, value, priority)
       IN /\ it_root' = res.root
          /\ it_arena' = res.arena
    /\ it_ret' = None
    /\ it_op' = [name |-> "push_front", value |-> value, priority |-> priority]
    /\ UNCHANGED <<it_panic, ctVars, ufVars, pcVars, asVars, muVars, ftVars>>

\* `self.remove(self.len() - 1)`: on an empty treap the subtraction
\* overflows, which panics in a build with overflow checks and wraps to
\* usize::MAX in one without.
ItPopBack ==
    /\ ~it_panic
    /\ it_op' = [name |-> "pop_back"]
    /\ \/ /\ it_len = 0
          /\ it_panic' = TRUE
          /\ it_ret' = None
          /\ UNCHANGED <<it_root, it_arena>>
       \/ /\ LET pos == IF it_len = 0 THEN UsizeMax ELSE it_len - 1
                 res == it_remove(it_arena, it_root, pos)
             IN /\ it_root' = res.root
                /\ it_arena' = res.arena
                /\ it_ret' = res.ret
          /\ UNCHANGED it_panic
    /\ UNCHANGED <<ctVars, ufVars, pcVars, asVars, muVars, ftVars>>

ItPopFront ==
    /\ ~it_panic
    /\ LET res == it_remove(it_arena, it_root, 0)
       IN /\ it_root' = res.root
          /\ it_arena' = res.arena
          /\ it_ret' = res.ret
    /\ it_op' = [name |-> "pop_front"]
    /\ UNCHANGED <<it_panic, ctVars, ufVars, pcVars, asVars, muVars, ftVars>>

NextIT ==
    \/ \E pos \in Positions, value \in Vals, priority \in Prios :
           ItInsert(pos, value, priority)
    \/ \E pos \in Positions : ItRemove(pos)
    \/ \E value \in Vals, priority \in Prios : ItPushBack(value, priority)
    \/ \E value \in Vals, priority \in Prios : ItPushFront(value, priority)
    \/ ItPopBack
    \/ ItPopFront

SpecIT == Init /\ [][NextIT]_vars

----------------------------------------------------------------------------
\* Observation helpers for the properties below.

\* The handles met by an in-order traversal from r.
RECURSIVE in_order(_, _)
in_order(a, r) ==
    IF r = NoIdx THEN <<>>
    ELSE in_order(a, a[r].left) \o <<r>> \o in_order(a, a[r].right)

\* The (key, value, priority) entries in traversal order.
Content(a, r) ==
    LET hs == in_order(a, r)
    IN [i \in 1..Len(hs) |-> <<a[hs[i]].key, a[hs[i]].value, a[hs[i]].priority>>]

NodesOf(a, r) == LET hs == in_order(a, r) IN {hs[i] : i \in 1..Len(hs)}

KeysOf(a, r) == {a[h].key : h \in NodesOf(a, r)}

CountsConsistent(a, r) ==
    \A h \in NodesOf(a, r) :
        a[h].count = 1 + count_of(a, a[h].left) + count_of(a, a[h].right)

HeapOrdered(a, r) ==
    \A h \in NodesOf(a, r) :
        /\ a[h].left # NoIdx => a[h].priority >= a[a[h].left].priority
        /\ a[h].right # NoIdx => a[h].priority >= a[a[h].right].priority

StrictlyIncreasing(hs, a) ==
    \A i \in 1..(Len(hs) - 1) : a[hs[i]].key < a[hs[i + 1]].key

\* The elements related to those of S by the unioned pairs, in any number
\* of steps.
RECURSIVE UfReach(_)
UfReach(S) ==
    LET T == S \cup {z \in UfIndices : \E q \in uf_pairs : z \in q /\ q \cap S # {}}
    IN IF T = S THEN S ELSE UfReach(T)

UfRelated(x, y) == y \in UfReach({x})

\* The calls on misc::UnionFind.  uf_pairs records the pairs that union was
\* called on with both elements added; a pair whose elements the recorded
\* pairs relate already adds nothing to the closure and is not recorded again.
UfAddSet ==
    /\ ~uf_panic
    /\ Len(parents) < UfMax
    /\ LET res == uf_add_set(parents, sizes)
       IN /\ parents' = res.parents
          /\ sizes' = res.sizes
          /\ uf_ret' = Some(res.ret)
    /\ uf_op' = [name |-> "add_set"]
    /\ UNCHANGED <<uf_panic, uf_pairs, ctVars, itVars, pcVars, asVars, muVars, ftVars>>

UfExtend(n) ==
    /\ ~uf_panic
    /\ Len(parents) + n <= UfMax
    /\ LET res == uf_extend(parents, sizes, n)
       IN /\ parents' = res.parents
          /\ sizes' = res.sizes
          /\ uf_ret' = Some(res.ret)
    /\ uf_op' = [name |-> "extend", n |-> n]
    /\ UNCHANGED <<uf_panic, uf_pairs, ctVars, itVars, pcVars, asVars, muVars, ftVars>>

UfFind(x) ==
    /\ ~uf_panic
    /\ LET res == uf_find(parents, x)
       IN /\ parents' = res.parents
          /\ uf_ret' = res.ret
    /\ uf_op' = [name |-> "find", x |-> x]
    /\ UNCHANGED <<sizes, uf_panic, uf_pairs, ctVars, itVars, pcVars, asVars, muVars, ftVars>>

UfSizeOfSet(x) ==
    /\ ~uf_panic
    /\ LET res == uf_size_of_set(parents, sizes, x)
       IN /\ parents' = res.parents
          /\ uf_ret' = res.ret
    /\ uf_op' = [name |-> "size_of_set", x |-> x]
    /\ UNCHANGED <<sizes, uf_panic, uf_pairs, ctVars, itVars, pcVars, asVars, muVars, ftVars>>

UfUnion(x, y) ==
    /\ ~uf_panic
    /\ LET res == uf_union(parents, sizes, x, y)
       IN /\ parents' = res.parents
          /\ sizes' = res.sizes
          /\ uf_panic' = res.panic
          /\ uf_pairs' = IF res.panic \/ UfRelated(x, y)
                         THEN uf_pairs
                         ELSE uf_pairs \cup {{x, y}}
    /\ uf_ret' = None
    /\ uf_op' = [name |-> "union", x |-> x, y |-> y]
    /\ UNCHANGED <<ctVars, itVars, pcVars, asVars, muVars, ftVars>>

NextUF ==
    \/ UfAddSet
    \/ \E n \in 0..MaxExtend : UfExtend(n)
    \/ \E x \in UfIndices : UfFind(x)
    \/ \E x \in UfIndices : UfSizeOfSet(x)
    \/ \E x, y \in UfIndices : UfUnion(x, y)

SpecUF == Init /\ [][NextUF]_vars

----------------------------------------------------------------------------
\* A call of path_contraction: the arguments and the build are drawn at the
\* start, then the loop runs pass by pass.
InitPC ==
    /\ InitCT
    /\ InitIT
    /\ InitUF
    /\ InitMU
    /\ InitFT
    /\ InitASIdle
    /\ pc_successor \in [PcStates -> PcStates]
    /\ pc_start \in PcStates
    /\ pc_iterations \in PcUsize
    /\ pc_overflow_checks \in BOOLEAN
    /\ pc_shortcuts = << >>
    /\ pc_cur = pc_start
    /\ pc_cur_iter = 0
    /\ pc_ret = None
    /\ pc_panic = FALSE

PcReturn ==
    /\ pc_ret = None
    /\ ~pc_panic
    /\ pc_cur_iter = pc_iterations
    /\ pc_ret' = Some(pc_cur)
    /\ UNCHANGED <<pc_successor, pc_start, pc_iterations, pc_overflow_checks,
                   pc_shortcuts, pc_cur, pc_cur_iter, pc_panic>>
    /\ UNCHANGED <<ctVars, itVars, ufVars, asVars, muVars, ftVars>>

PcPass ==
    /\ pc_ret = None
    /\ ~pc_panic
    /\ pc_cur_iter # pc_iterations
    /\ LET res == pc_pass(pc_successor, pc_iterations, pc_overflow_checks,
                          pc_shortcuts, pc_cur, pc_cur_iter)
       IN /\ pc_shortcuts' = res.shortcuts
          /\ pc_cur' = res.cur
          /\ pc_cur_iter' = res.cur_iter
          /\ pc_panic' = res.panic
    /\ UNCHANGED <<pc_successor, pc_start, pc_iterations, pc_overflow_checks,
                   pc_ret>>
    /\ UNCHANGED <<ctVars, itVars, ufVars, asVars, muVars, ftVars>>

NextPC ==
    \/ PcReturn
    \/ PcPass

SpecPC == InitPC /\ [][NextPC]_vars

----------------------------------------------------------------------------
\* A call of astar.  start and the goal node are drawn at the start; what
\* successors(n) returns is drawn when n is first expanded and kept, and
\* what heuristic(n) returns is drawn when n is pushed.
InitAS ==
    /\ InitCT
    /\ InitIT
    /\ InitUF
    /\ InitMU
    /\ InitFT
    /\ InitPCIdle
    /\ as_start \in AsNodes
    /\ as_goal \in AsNodes
    /\ as_successors = << >>
    /\ as_open_set = {<<0, 0, as_start>>}
    /\ as_parents = << >>
    /\ as_state = "running"
    /\ as_ret = None

\* The popped node satisfies goal: the call returns the path and g, unless
\* reconstruct_path does not come to an end.
AsPopGoal ==
    /\ as_state = "running"
    /\ \E e \in as_pop_candidates(as_open_set) :
          /\ e[3] = as_goal
          /\ LET rp == reconstruct_path(as_parents, e[3])
             IN IF rp.diverges
                THEN /\ as_state' = "diverged"
                     /\ as_ret' = None
                ELSE /\ as_state' = "returned"
                     /\ as_ret' = Some(<<rp.result, e[2]>>)
          /\ as_open_set' = as_open_set \ {e}
    /\ UNCHANGED <<as_start, as_goal, as_successors, as_parents>>
    /\ UNCHANGED <<ctVars, itVars, ufVars, pcVars, muVars, ftVars>>

\* The popped node does not satisfy goal: its successors are pushed.
AsExpand ==
    /\ as_state = "running"
    /\ \E e \in as_pop_candidates(as_open_set) :
          /\ e[3] # as_goal
          /\ \E list \in AsSuccessorLists, h \in [AsNodes -> 0..MaxH] :
                /\ e[3] \in DOMAIN as_successors => list = as_successors[e[3]]
                /\ as_successors' =
                       [n \in DOMAIN as_successors \cup {e[3]} |->
                           IF n = e[3] THEN list ELSE as_successors[n]]
                /\ as_parents' = as_expand_parents(as_parents, e[3], list)
                /\ as_open_set' =
                       as_expand_open_set(as_open_set \ {e}, as_parents,
                                          e[2], list, h)
    /\ UNCHANGED <<as_start, as_goal, as_state, as_ret>>
    /\ UNCHANGED <<ctVars, itVars, ufVars, pcVars, muVars, ftVars>>

\* open_set is empty: the call returns None.
AsExhausted ==
    /\ as_state = "running"
    /\ as_open_set = {}
    /\ as_state' = "returned"
    /\ as_ret' = None
    /\ UNCHANGED <<as_start, as_goal, as_successors, as_open_set, as_parents>>
    /\ UNCHANGED <<ctVars, itVars, ufVars, pcVars, muVars, ftVars>>

NextAS ==
    \/ AsPopGoal
    \/ AsExpand
    \/ AsExhausted

SpecAS == InitAS /\ [][NextAS]_vars

----------------------------------------------------------------------------
\* The calls on math::UnionFind.
MuMakeSet ==
    /\ Len(mu_parents) < MuMax
    /\ LET res == mu_make_set(mu_parents, mu_sizes)
       IN /\ mu_parents' = res.parents
          /\ mu_sizes' = res.sizes
          /\ mu_ret' = res.ret
    /\ mu_op' = [name |-> "make_set"]
    /\ UNCHANGED <<ctVars, itVars, ufVars, pcVars, asVars, ftVars>>

MuFind(x) ==
    /\ LET res == mu_find(mu_parents, x)
       IN /\ mu_parents' = res.parents
          /\ mu_ret' = res.ret
    /\ mu_op' = [name |-> "find", x |-> x]
    /\ UNCHANGED <<mu_sizes, ctVars, itVars, ufVars, pcVars, asVars, ftVars>>

MuSizeOfSet(x) ==
    /\ LET res == mu_size_of_set(mu_parents, mu_sizes, x)
       IN /\ mu_parents' = res.parents
          /\ mu_ret' = res.ret
    /\ mu_op' = [name |-> "size_of_set", x |-> x]
    /\ UNCHANGED <<mu_sizes, ctVars, itVars, ufVars, pcVars, asVars, ftVars>>

MuRoots ==
    /\ mu_ret' = mu_roots(mu_parents)
    /\ mu_op' = [name |-> "roots"]
    /\ UNCHANGED <<mu_parents, mu_sizes, ctVars, itVars, ufVars, pcVars, asVars, ftVars>>

MuUnion(x, y) ==
    /\ LET res == mu_union(mu_parents, mu_sizes, x, y)
       IN /\ mu_parents' = res.parents
          /\ mu_sizes' = res.sizes
          /\ mu_ret' = res.ret
    /\ mu_op' = [name |-> "union", x |-> x, y |-> y]
    /\ UNCHANGED <<ctVars, itVars, ufVars, pcVars, asVars, ftVars>>

NextMU ==
    \/ MuMakeSet
    \/ MuRoots
    \/ \E x \in MuIndices : MuFind(x)
    \/ \E x \in MuIndices : MuSizeOfSet(x)
    \/ \E x, y \in MuIndices : MuUnion(x, y)

SpecMU == Init /\ [][NextMU]_vars

----------------------------------------------------------------------------
\* The calls on FenwickTree.  A panic ends the run.
FtNew(size) ==
    /\ ~ft_panic
    /\ ft_tree' = ft_new(size)
    /\ ft_values' = [i \in 1..size |-> 0]
    /\ ft_op' = [name |-> "new", size |-> size]
    /\ UNCHANGED <<ft_panic, ctVars, itVars, ufVars, pcVars, asVars, muVars>>

FtFromValues(values) ==
    /\ ~ft_panic
    /\ ft_tree' = ft_from_values(values)
    /\ ft_values' = values
    /\ ft_op' = [name |-> "from_values", values |-> values]
    /\ UNCHANGED <<ft_panic, ctVars, itVars, ufVars, pcVars, asVars, muVars>>

FtAdd(idx, delta) ==
    /\ ~ft_panic
    /\ ft_tree # << >>
    /\ idx < Len(ft_values) => ft_values[idx + 1] + delta \in FtTotals
    /\ IF ft_add_panics(ft_tree, idx)
       THEN /\ ft_panic' = TRUE
            /\ UNCHANGED <<ft_tree, ft_values>>
       ELSE /\ ft_tree' = ft_add(ft_tree, idx, delta)
            /\ ft_values' = [ft_values EXCEPT ![idx + 1] = @ + delta]
            /\ UNCHANGED ft_panic
    /\ ft_op' = [name |-> "add", idx |-> idx, delta |-> delta]
    /\ UNCHANGED <<ctVars, itVars, ufVars, pcVars, asVars, muVars>>

NextFT ==
    \/ \E size \in 0..MaxSize : FtNew(size)
    \/ \E size \in 0..MaxSize : \E values \in [1..size -> FtTotals] :
           FtFromValues(values)
    \/ \E idx \in FtIndices, delta \in FtDeltas : FtAdd(idx, delta)

SpecFT == Init /\ [][NextFT]_vars

\* The sequence an ImplicitTreap holds, read by positional indexing.
ItSeqOf(a, t) == [i \in 1..it_size(a, t) |-> it_index(a, t, i - 1)]

ItSeq == ItSeqOf(it_arena, it_root)

\* List insertion and deletion at a 0-based position.
InsertAt(sq, pos, x) == SubSeq(sq, 1, pos) \o <<x>> \o SubSeq(sq, pos + 1, Len(sq))

RemoveAt(sq, pos) == SubSeq(sq, 1, pos) \o SubSeq(sq, pos + 2, Len(sq))

Min(x, y) == IF x <= y THEN x ELSE y

----------------------------------------------------------------------------
\* Properties of CartesianTree.

\* C1: after every insert and every remove(key), starting from an empty
\* tree, every node's priority is >= the priority of each child it has.
C1_HeapProperty == HeapOrdered(arena, root)

\* C2: an in-order traversal of the nodes reachable from root yields keys
\* in strictly increasing order.
C2_BstOrdering == StrictlyIncreasing(in_order(arena, root), arena)

\* An insert has just rotated its new key up to the root, above both a left
\* and a right subtree.
C2_Witness ==
    /\ op.name = "insert"
    /\ root # NoIdx
    /\ arena[root].key = op.key
    /\ arena[root].priority = op.priority
    /\ arena[root].left # NoIdx
    /\ arena[root].right # NoIdx

\* C3: after insert, remove and remove_index return, every node reachable
\* from root has count = 1 + count(left) + count(right), an absent child
\* counting 0.
C3_CountConsistency == CountsConsistent(arena, root)

\* A remove_index has just taken an entry out of a full tree.
C3_Witness ==
    /\ op.name = "remove_index"
    /\ ret # None
    /\ len = NumKeys - 1

\* C4: remove_index(k) with k < len() returns exactly what get_index(k)
\* returned immediately before the call; afterwards that key is absent and
\* every other key is still present.
C4_RemoveIndexRemovesRank ==
    [][(op'.name = "remove_index" /\ op'.k < len) =>
           /\ ret' = get_index(op'.k)
           /\ KeysOf(arena', root') =
                  KeysOf(arena, root) \ {get_index(op'.k)[1][1]}]_vars

\* C5: for every present key k, get_index(index(k)) returns key k; for
\* every rank r in [0, len()), index(key of get_index(r)) = Some(r).
C5_RankSelectDuality ==
    /\ \A k \in KeysOf(arena, root) :
           /\ index(k) # None
           /\ get_index(index(k)[1]) # None
           /\ get_index(index(k)[1])[1][1] = k
    /\ \A r \in 0..(len - 1) :
           /\ get_index(r) # None
           /\ index(get_index(r)[1][1]) = Some(r)

\* A full tree whose root has no left child: the rank of the largest key is
\* accumulated over right descents only.
C5_Witness ==
    /\ len = NumKeys
    /\ arena[root].left = NoIdx
    /\ index(NumKeys) = Some(NumKeys - 1)

\* C6: insert on an already-present key updates only the stored value:
\* priority, shape, every count, len() and every other entry are unchanged.
C6_ReinsertOnlyValue ==
    [][(op'.name = "insert" /\ op'.key \in KeysOf(arena, root)) =>
           /\ root' = root
           /\ DOMAIN arena' = DOMAIN arena
           /\ \A h \in DOMAIN arena :
                  arena'[h] = IF arena[h].key = op'.key
                              THEN [arena[h] EXCEPT !.value = op'.value]
                              ELSE arena[h]]_vars

\* C7: for any reachable tree and any absent key k, insert(k, v, p) followed
\* by remove(k) returns Some((v, p)) and leaves the same in-order entries
\* (keys, values, priorities), the same len(), and consistent counts.
C7_InsertRemoveInverse ==
    \A k \in Keys \ KeysOf(arena, root), v \in Vals, p \in Prios :
        LET ins == insert_kv(arena, root, k, v, p)
            rem == remove_key(ins.arena, ins.root, k)
        IN /\ rem.ret = Some(<<v, p>>)
           /\ Content(rem.arena, rem.root) = Content(arena, root)
           /\ count_of(rem.arena, rem.root) = len
           /\ CountsConsistent(rem.arena, rem.root)
           /\ DOMAIN rem.arena = DOMAIN arena

\* A two-node tree and an absent key whose insert rotates it to the root
\* between the two, so that its removal has to rotate it back down.
C7_Witness ==
    /\ len = NumKeys - 1
    /\ \E k \in Keys \ KeysOf(arena, root), v \in Vals, p \in Prios :
           LET ins == insert_kv(arena, root, k, v, p)
           IN /\ ins.arena[ins.root].key = k
              /\ ins.arena[ins.root].left # NoIdx
              /\ ins.arena[ins.root].right # NoIdx

\* C8: remove(key) on a present key returns Some((value, priority)) as
\* stored; afterwards get(key) = None, len() is one less, and get of every
\* other key returns what it returned before.
C8_RemovePresent ==
    [][(op'.name = "remove" /\ op'.key \in KeysOf(arena, root)) =>
           /\ ret' = get(op'.key)
           /\ ret' # None
           /\ search(arena', root', op'.key) = None
           /\ count_of(arena', root') = len - 1
           /\ \A k \in Keys \ {op'.key} :
                  search(arena', root', k) = get(k)]_vars

\* A remove has just returned an entry and left others behind.
C8_Witness ==
    /\ op.name = "remove"
    /\ ret # None
    /\ len = NumKeys - 1

\* C9: get, index and remove on an absent key, and get_index and
\* remove_index with k >= len(), return None; the two removals leave the
\* tree (entries, counts, len()) unchanged.
C9_AbsenceHandling ==
    /\ \A key \in Keys \ KeysOf(arena, root) :
           /\ get(key) = None
           /\ index(key) = None
           /\ remove_key(arena, root, key) =
                  [arena |-> arena, root |-> root, ret |-> None]
    /\ \A k \in Ranks :
           k >= len =>
               /\ get_index(k) = None
               /\ remove_by_index(arena, root, k) =
                      [arena |-> arena, root |-> root, ret |-> None]

\* A remove of an absent key has just returned None on a non-empty tree.
C9_Witness ==
    /\ op.name = "remove"
    /\ ret = None
    /\ op.key \notin KeysOf(arena, root)
    /\ len = NumKeys - 1

\* C10: get_index(k) returns the entry whose key has exactly k stored keys
\* strictly smaller than it, with its value and priority, and returns None
\* exactly when k >= len().
C10_GetIndexSelects ==
    \A k \in Ranks :
        IF k >= len THEN get_index(k) = None
        ELSE /\ get_index(k) # None
             /\ LET e == get_index(k)[1]
                IN /\ e[1] \in KeysOf(arena, root)
                   /\ Cardinality({x \in KeysOf(arena, root) : x < e[1]}) = k
                   /\ get(e[1]) = Some(<<e[2], e[3]>>)

\* A full tree with both subtrees under the root: the last rank is found by
\* descending right, and one past it is out of range.
C10_Witness ==
    /\ len = NumKeys
    /\ arena[root].left # NoIdx
    /\ arena[root].right # NoIdx
    /\ get_index(NumKeys - 1) # None
    /\ get_index(NumKeys) = None

\* C11: after any sequence of insert and remove(key) calls, get(key)
\* returns the value of the most recent insert of that key not followed by a
\* remove of it (None otherwise), len() is the number of such live keys, and
\* is_empty() holds iff that number is 0.
C11_RefinesMap ==
    /\ \A key \in Keys :
           IF key \in DOMAIN live
           THEN get(key) # None /\ get(key)[1][1] = live[key]
           ELSE get(key) = None
    /\ len = Cardinality(DOMAIN live)
    /\ is_empty <=> Cardinality(DOMAIN live) = 0

\* An insert has just overwritten the value of a present key in a full tree:
\* the stored priority is not the one this insert was called with.
C11_Witness ==
    /\ op.name = "insert"
    /\ len = NumKeys
    /\ live[op.key] = op.value
    /\ get(op.key)[1][2] # op.priority

\* C13: the results of get, index, get_index and len (priorities aside) are
\* a function of the map the insert/remove calls describe.  That map is
\* computed from the keys and values of the calls alone, so two runs of the
\* same calls with different priorities agree on every one of these results.
C13_PriorityIndependence ==
    LET ks == DOMAIN live
        rank(k) == Cardinality({x \in ks : x < k})
    IN /\ len = Cardinality(ks)
       /\ \A key \in Keys :
              /\ index(key) = IF key \in ks THEN Some(rank(key)) ELSE None
              /\ (get(key) = None) <=> key \notin ks
              /\ key \in ks => get(key)[1][1] = live[key]
       /\ \A r \in Ranks :
              IF r >= Cardinality(ks) THEN get_index(r) = None
              ELSE /\ get_index(r) # None
                   /\ get_index(r)[1][1] \in ks
                   /\ rank(get_index(r)[1][1]) = r
                   /\ get_index(r)[1][2] = live[get_index(r)[1][1]]

\* A full tree that the priorities have shaped into a chain hanging to the
\* right of the smallest key, with the largest key not at the bottom's parent:
\* other priorities give the same entries another shape.
C13_Witness ==
    /\ len = NumKeys
    /\ arena[root].key = 1
    /\ arena[arena[root].right].key = NumKeys
    /\ arena[root].priority > arena[arena[root].right].priority

\* C12: no public call (insert, get, index, get_index, remove,
\* remove_index, len) with any key, priority or rank panics on any reachable
\* tree: no unwrap of a missing handle or child, no unreachable!, no usize
\* underflow in the rank arithmetic.
C12_NoPanic ==
    /\ ~len_panics
    /\ \A key \in Keys :
           /\ ~search_panics(arena, root, key)
           /\ ~index_of_panics(arena, root, key)
           /\ ~remove_key_panics(arena, root, key)
           /\ \A value \in Vals, priority \in Prios :
                  ~insert_kv_panics(arena, root, key, value, priority)
    /\ \A k \in Ranks :
           /\ ~kth_largest_of_panics(arena, root, k)
           /\ ~remove_by_index_panics(arena, root, k)

\* A full tree whose root has two children, the left one of at least the
\* right one's priority: remove_index of the root's rank rotates right and
\* computes k - new_left_count - 1, and remove of the root's key rotates too.
C12_Witness ==
    /\ len = NumKeys
    /\ arena[root].left # NoIdx
    /\ arena[root].right # NoIdx
    /\ arena[arena[root].left].priority >= arena[arena[root].right].priority
    /\ op.name = "insert"
    /\ op.priority < arena[root].priority

----------------------------------------------------------------------------
\* Properties of ImplicitTreap.

\* C14: insert(pos, value) with pos <= len() turns the sequence s read by
\* positional indexing into s[0..pos] ++ [value] ++ s[pos..], whatever the
\* priority drawn.
C14_InsertRefinesList ==
    [][(it_op'.name = "insert" /\ it_op'.pos <= it_len) =>
           ItSeqOf(it_arena', it_root') =
               InsertAt(ItSeq, it_op'.pos, Some(it_op'.value))]_vars

\* An insert has just put an element between two others.
C14_Witness ==
    /\ it_op.name = "insert"
    /\ it_op.pos = 1
    /\ it_len = MaxLen
    /\ it_index(it_arena, it_root, 1) = Some(it_op.value)

\* C15: remove(pos) with pos < len() returns Some of the element at
\* position pos; afterwards the sequence is the previous one with that
\* position deleted and len() is one less.
C15_RemoveRefinesList ==
    [][(it_op'.name = "remove" /\ it_op'.pos < it_len) =>
           /\ it_ret' # None
           /\ it_ret' = ItSeq[it_op'.pos + 1]
           /\ ItSeqOf(it_arena', it_root') = RemoveAt(ItSeq, it_op'.pos)
           /\ it_size(it_arena', it_root') = it_len - 1]_vars

\* A remove has just taken the middle element out of a full treap.
C15_Witness ==
    /\ it_op.name = "remove"
    /\ it_op.pos = 1
    /\ it_ret # None
    /\ it_len = MaxLen - 1

\* C16: remove(pos) with pos >= len(), on an empty treap too, returns None
\* and leaves the sequence's content, order and len() unchanged.
C16_RemoveOutOfRange ==
    \A pos \in Positions \cup {UsizeMax} :
        pos >= it_len =>
            LET res == it_remove(it_arena, it_root, pos)
            IN /\ res.ret = None
               /\ ItSeqOf(res.arena, res.root) = ItSeq
               /\ it_size(res.arena, res.root) = it_len
               /\ DOMAIN res.arena = DOMAIN it_arena

\* A remove past the end has just returned None on a non-empty treap.
C16_Witness ==
    /\ it_op.name = "remove"
    /\ it_op.pos >= it_len
    /\ it_ret = None
    /\ it_len = MaxLen - 1

\* C17: for every treap and every position p, split at p gives L holding
\* exactly the elements at positions [0, p] and R the remainder, and merging
\* L with R gives the treap's content in its order again.
C17_SplitMergeInverse ==
    \A p \in Positions :
        LET sp == it_split(it_arena, it_root, p, 0)
            mg == it_merge(sp.arena, sp.l, sp.r)
            cut == Min(p + 1, it_len)
        IN /\ ItSeqOf(sp.arena, sp.l) = SubSeq(ItSeq, 1, cut)
           /\ ItSeqOf(sp.arena, sp.r) = SubSeq(ItSeq, cut + 1, it_len)
           /\ ItSeqOf(mg.arena, mg.root) = ItSeq

\* A full treap whose root has two children: a split at 0 cuts below the
\* root on the left and the merge has to put the halves together again.
C17_Witness ==
    /\ it_len = MaxLen
    /\ it_arena[it_root].left # NoIdx
    /\ it_arena[it_root].right # NoIdx

\* C18: pop_back and pop_front on an empty treap return None, without a
\* panic and without an underflow in len() - 1, and leave the treap empty.
C18_PopOnEmpty ==
    [][(it_op'.name \in {"pop_back", "pop_front"} /\ it_len = 0) =>
           /\ ~it_panic'
           /\ it_ret' = None
           /\ it_root' = NoIdx]_vars

\* C19: push_back(v) makes v the last element and push_front(v) the first,
\* the others keeping their order; on a non-empty treap pop_back returns and
\* removes the last element and pop_front the first; each changes len() by 1.
C19_DoubleEnded ==
    [][LET nxt == ItSeqOf(it_arena', it_root')
       IN /\ it_op'.name = "push_back" => nxt = ItSeq \o <<Some(it_op'.value)>>
          /\ it_op'.name = "push_front" => nxt = <<Some(it_op'.value)>> \o ItSeq
          /\ (it_op'.name = "pop_back" /\ it_len > 0) =>
                 /\ it_ret' = ItSeq[it_len]
                 /\ it_ret' # None
                 /\ nxt = SubSeq(ItSeq, 1, it_len - 1)
          /\ (it_op'.name = "pop_front" /\ it_len > 0) =>
                 /\ it_ret' = ItSeq[1]
                 /\ it_ret' # None
                 /\ nxt = SubSeq(ItSeq, 2, it_len)]_vars

\* A pop_back has just returned the last element of a full treap.
C19_Witness ==
    /\ it_op.name = "pop_back"
    /\ it_ret # None
    /\ it_len = MaxLen - 1

----------------------------------------------------------------------------
\* Properties of misc::UnionFind.

\* C20: after any sequence of add_set, extend and union calls on added
\* elements, find(x) = find(y) iff x and y are related by the reflexive,
\* symmetric and transitive closure of the unioned pairs; find on an index
\* that was never added returns None.
C20_TracksPartition ==
    ~uf_panic =>
        \A x, y \in UfIndices \cup {UsizeMax} :
            LET fx == uf_find(parents, x)
                fy == uf_find(fx.parents, y)
            IN /\ x >= Len(parents) => fx.ret = None
               /\ x < Len(parents) => fx.ret # None
               /\ (x < Len(parents) /\ y < Len(parents)) =>
                      ((fx.ret = fy.ret) <=> UfRelated(x, y))

\* A union has just joined two sets of two elements: two elements that
\* were never unioned with each other are in one set, and find walks a
\* chain of two links.
C20_Witness ==
    /\ uf_op.name = "union"
    /\ ~uf_panic
    /\ Len(parents) = UfMax
    /\ \E x \in 0..(UfMax - 1) :
           /\ At(parents, x) # x
           /\ At(parents, At(parents, x)) # At(parents, x)
    /\ \E x, y \in 0..(UfMax - 1) :
           /\ x # y
           /\ {x, y} \notin uf_pairs
           /\ UfRelated(x, y)

----------------------------------------------------------------------------
\* Properties of path_contraction.

\* C21: path_contraction(start, successor, iterations) returns the state
\* that `iterations` applications of successor lead to from start, for every
\* iterations >= 0; every pass of the loop advances the iteration counter by
\* at least 1 and never beyond `iterations`, and the call does not panic.
C21_PathContraction ==
    /\ [](pc_ret # None =>
             pc_ret = Some(Iterate(pc_successor, pc_start, pc_iterations)))
    /\ [](~pc_panic)
    /\ [][PcPass => /\ pc_cur_iter' >= pc_cur_iter + 1
                    /\ pc_cur_iter' <= pc_iterations]_vars

----------------------------------------------------------------------------
\* Properties of astar.

\* The sum of the costs of the edges along a path whose edges exist.
RECURSIVE AsPathCost(_)
AsPathCost(path) ==
    IF Len(path) <= 1 THEN 0
    ELSE as_successors[path[1]][path[2]] + AsPathCost(Tail(path))

\* The search has popped a node satisfying goal.
AsGoalPopped == as_state = "diverged" \/ (as_state = "returned" /\ as_ret # None)

\* C22: whenever the search pops a node satisfying goal, the call ends and
\* returns a path from start to that node in which every step goes to a
\* successor, together with the sum of the edge costs along the path; also
\* when start is reachable again from one of its descendants.
C22_AstarPath ==
    AsGoalPopped =>
        /\ as_state = "returned"
        /\ LET path == as_ret[1][1]
               cost == as_ret[1][2]
           IN /\ path[1] = as_start
              /\ path[Len(path)] = as_goal
              /\ \A i \in 1..(Len(path) - 1) :
                     /\ path[i] \in DOMAIN as_successors
                     /\ as_successors[path[i]][path[i + 1]] # 0
              /\ cost = AsPathCost(path)

----------------------------------------------------------------------------
\* Properties of math::UnionFind.

\* C23: after any sequence of make_set and union calls, roots() returns
\* exactly { find(x) : x added }, so its size is the number of disjoint sets.
C23_RootsAreSets ==
    [][mu_op'.name = "roots" =>
           mu_ret' = {mu_find(mu_parents, x).ret[1] :
                         x \in 0..(Len(mu_parents) - 1)}]_vars

----------------------------------------------------------------------------
\* Termination and frame of the CartesianTree removals.

C25_RemoveIndexKeepsHeap ==
    [][(op'.name = "remove_index" /\ HeapOrdered(arena, root)) =>
           HeapOrdered(arena', root')]_vars

\* The entries of a tree as a set of (key, value, priority) triples.
EntriesOf(a, r) == {<<a[h].key, a[h].value, a[h].priority>> : h \in NodesOf(a, r)}

\* C26: remove_index(k) with k < len() returns Some, len() decreases by
\* exactly 1, the returned (key, value, priority) is the entry that is no
\* longer in the tree, and every other entry keeps its key, value and
\* priority.
C26_RemoveIndexRemovesOne ==
    [][(op'.name = "remove_index" /\ op'.k < len) =>
           /\ ret' # None
           /\ count_of(arena', root') = len - 1
           /\ ret'[1] \in EntriesOf(arena, root)
           /\ EntriesOf(arena', root') = EntriesOf(arena, root) \ {ret'[1]}]_vars

\* A remove_index has just returned the entry of rank 1 of a full tree.
C26_Witness ==
    /\ op.name = "remove_index"
    /\ op.k = 1
    /\ ret # None
    /\ len = NumKeys - 1

\* C27: after every public operation the arena holds exactly len() nodes,
\* each reachable from root along exactly one path; insert of a new key
\* allocates exactly one node, insert of a present key none, and each
\* successful removal frees exactly one.
C27_ArenaAccounting ==
    /\ [](/\ DOMAIN arena = NodesOf(arena, root)
          /\ Len(in_order(arena, root)) = Cardinality(DOMAIN arena)
          /\ Cardinality(DOMAIN arena) = len)
    /\ [][/\ op'.name = "insert" =>
                Cardinality(DOMAIN arena') =
                    Cardinality(DOMAIN arena) +
                        (IF op'.key \in KeysOf(arena, root) THEN 0 ELSE 1)
          /\ op'.name \in {"remove", "remove_index"} =>
                Cardinality(DOMAIN arena') =
                    Cardinality(DOMAIN arena) - (IF ret' = None THEN 0 ELSE 1)
         ]_vars

\* A remove has just taken a node out of a full tree and left a root with
\* a child.
C27_Witness ==
    /\ op.name = "remove"
    /\ ret # None
    /\ Cardinality(DOMAIN arena) = NumKeys - 1
    /\ (arena[root].left # NoIdx \/ arena[root].right # NoIdx)

----------------------------------------------------------------------------
\* Structural properties of ImplicitTreap.

\* The handles met by the in-order walk of a treap, in order.
RECURSIVE it_in_order(_, _)
it_in_order(a, t) ==
    IF t = NoIdx THEN <<>>
    ELSE it_in_order(a, a[t].left) \o <<t>> \o it_in_order(a, a[t].right)

ItNodesOf(a, t) == LET hs == it_in_order(a, t) IN {hs[i] : i \in 1..Len(hs)}

ItHeapOrdered(a, t) ==
    \A h \in ItNodesOf(a, t) :
        /\ a[h].left # NoIdx => a[h].priority >= a[a[h].left].priority
        /\ a[h].right # NoIdx => a[h].priority >= a[a[h].right].priority

\* C28: after any sequence of insert, remove, push_* and pop_* calls every
\* node's priority is >= that of each of its children; split leaves both
\* halves heap-ordered, and merge makes the root of higher priority the
\* parent and gives a heap-ordered treap.
C28_ItHeapOrder ==
    /\ ItHeapOrdered(it_arena, it_root)
    /\ \A p \in Positions :
           LET sp == it_split(it_arena, it_root, p, 0)
               mg == it_merge(sp.arena, sp.l, sp.r)
           IN /\ ItHeapOrdered(sp.arena, sp.l)
              /\ ItHeapOrdered(sp.arena, sp.r)
              /\ ItHeapOrdered(mg.arena, mg.root)
              /\ (sp.l # NoIdx /\ sp.r # NoIdx) =>
                     /\ mg.root \in {sp.l, sp.r}
                     /\ mg.arena[mg.root].priority >= sp.arena[sp.l].priority
                     /\ mg.arena[mg.root].priority >= sp.arena[sp.r].priority

\* A full treap whose root has two children, one of them of strictly lower
\* priority.
C28_Witness ==
    /\ it_len = MaxLen
    /\ it_arena[it_root].left # NoIdx
    /\ it_arena[it_root].right # NoIdx
    /\ it_arena[it_arena[it_root].left].priority < it_arena[it_root].priority

\* C29: after any sequence of public operations every node's size is
\* 1 + size(left) + size(right) and the arena holds exactly len() nodes, all
\* in the treap; len() grows by 1 with every insert and push, shrinks by 1
\* with every remove and pop that returns Some (the node taken out is freed)
\* and stays otherwise, so it is the number of elements inserted and not yet
\* removed.
C29_ItSizeConsistency ==
    /\ [](/\ \A h \in ItNodesOf(it_arena, it_root) :
                it_arena[h].size = 1 + it_size(it_arena, it_arena[h].left)
                                     + it_size(it_arena, it_arena[h].right)
          /\ DOMAIN it_arena = ItNodesOf(it_arena, it_root)
          /\ Len(it_in_order(it_arena, it_root)) = it_len
          /\ Cardinality(DOMAIN it_arena) = it_len)
    /\ [][/\ it_op'.name \in {"insert", "push_back", "push_front"} =>
                it_size(it_arena', it_root') = it_len + 1
          /\ (it_op'.name \in {"remove", "pop_back", "pop_front"} /\ ~it_panic') =>
                it_size(it_arena', it_root') =
                    it_len - (IF it_ret' = None THEN 0 ELSE 1)
         ]_vars

\* A remove has just taken the middle element out of a full treap whose
\* root had two children.
C29_Witness ==
    /\ it_op.name = "remove"
    /\ it_op.pos = 1
    /\ it_ret # None
    /\ it_len = MaxLen - 1
    /\ it_arena[it_root].size = MaxLen - 1

----------------------------------------------------------------------------
\* Properties of FenwickTree.

\* The sum of the totals at the indices [a, b) of a plain array.
RECURSIVE SumOver(_, _, _)
SumOver(values, a, b) ==
    IF a >= b THEN 0 ELSE values[a + 1] + SumOver(values, a + 1, b)

\* C30: after new(n) or from_values and any sequence of add(i, delta) with
\* i < n, get(i) is the sum of the deltas added at i for every i < n, and
\* range_sum(a..b) is the sum of those totals over [a, b) for all
\* 0 <= a <= b <= n; neither call panics.
C30_FenwickAgrees ==
    (ft_tree # << >> /\ ~ft_panic) =>
        LET n == ft_len(ft_tree)
        IN /\ n = Len(ft_values)
           /\ \A i \in 0..(n - 1) :
                  /\ ~ft_get_panics(ft_tree, i)
                  /\ ft_get(ft_tree, i) = Some(ft_values[i + 1])
           /\ \A a \in 0..n : \A b \in a..n :
                  /\ ~ft_range_sum_panics(ft_tree, a, b)
                  /\ ft_range_sum(ft_tree, a, b) = SumOver(ft_values, a, b)

\* An add has just been made to a tree of MaxSize values that holds
\* positive and negative totals.
C30_Witness ==
    /\ ft_op.name = "add"
    /\ ~ft_panic
    /\ Len(ft_values) = MaxSize
    /\ \E i, j \in 1..MaxSize : ft_values[i] < 0 /\ ft_values[j] > 0

====
